---- MODULE Spec2Model ----
(***************************************************************************)
(* A model of openmdao-bridge-catia: the CatiaComp component (setup and    *)
(* compute), the variable-mapping generator, the unit tables, the document *)
(* loader and the session helper, together with the part of the CAD        *)
(* application's automation interface that this code calls.                *)
(***************************************************************************)
EXTENDS Integers, Sequences, FiniteSets, TLC

(***************************************************************************)
(* Bounds of the model.                                                    *)
(***************************************************************************)
\* numeric values range over 0..MaxVal
MaxVal == 1
\* number of compute calls after one setup
MaxComputes == 1
\* number of application sessions that may be started in one behaviour
MaxSessions == 3
\* number of unit translations applied in a row
MaxOps == 3

VARIABLES
    catia,            \* the CAD application: session, caption, alerts, loaded documents
    params,           \* the document's parameters: name -> parameter object
    handles,          \* sessions returned by get_catia_session since the last Quit
    started,          \* sessions started by get_catia_session since the last Quit
    comLog,           \* the automation calls of the current / most recent operation
    lastDoc,          \* what the most recent load_document returned or raised
    env,              \* the file at file_path and the interpreter's mode
    opt_inputs,       \* options["inputs"], in insertion order
    opt_outputs,      \* options["outputs"], in insertion order
    input_mappings,   \* self.input_mappings
    output_mappings,  \* self.output_mappings
    declared,         \* variables added to the component, in order
    inputs,           \* continuous inputs: om_name -> value
    discrete_inputs,  \* discrete inputs: om_name -> value
    outputs,          \* continuous outputs: om_name -> value
    discrete_outputs, \* discrete outputs: om_name -> value
    pc,               \* position in the component lifecycle
    idx,              \* position in the current loop of compute
    err,              \* the exception raised by the most recent call, "" if none
    computes,         \* number of compute calls started
    unitTrail,        \* unit strings produced by successive translations
    unitOps           \* the translations applied

cadVars == <<catia, params, handles, started, comLog, lastDoc, env>>
compVars == <<opt_inputs, opt_outputs, input_mappings, output_mappings, declared,
              inputs, discrete_inputs, outputs, discrete_outputs, pc, idx, err,
              computes>>
unitVars == <<unitTrail, unitOps>>
optVars == <<opt_inputs, opt_outputs, input_mappings, output_mappings, declared>>
vars == <<cadVars, compVars, unitVars>>

(***************************************************************************)
(* Python values.  One record shape for every value, so that values of     *)
(* different types can be compared: k is the type, n the number of a bool  *)
(* or int and the whole part of a float, s the characters of a str and the *)
(* fractional digits of a float (none when the float is whole).  Numbers   *)
(* are non-negative.                                                       *)
(***************************************************************************)
Digit == <<"0", "1", "2", "3", "4", "5", "6", "7", "8", "9">>

IsDigit(c) == \E i \in 1..10 : Digit[i] = c
DigitVal(c) == (CHOOSE i \in 1..10 : Digit[i] = c) - 1

\* the decimal digits of n
RECURSIVE Digits(_)
Digits(n) ==
    IF n < 10 THEN <<Digit[n + 1]>>
    ELSE Append(Digits(n \div 10), Digit[(n % 10) + 1])

\* the number written by a sequence of digits
RECURSIVE NumberOf(_)
NumberOf(ds) ==
    IF ds = <<>> THEN 0
    ELSE 10 * NumberOf(SubSeq(ds, 1, Len(ds) - 1)) + DigitVal(ds[Len(ds)])

\* the characters of the string literals the model uses; any other literal is
\* one opaque character
Chars(t) ==
    CASE t = ""     -> <<>>
      [] t = "mm"   -> <<"m", "m">>
      [] t = "m"    -> <<"m">>
      [] t = "m2"   -> <<"m", "2">>
      [] t = "m3"   -> <<"m", "3">>
      [] t = "m**2" -> <<"m", "*", "*", "2">>
      [] t = "m**3" -> <<"m", "*", "*", "3">>
      [] t = "deg"  -> <<"d", "e", "g">>
      [] t = "kg"   -> <<"k", "g">>
      [] \E i \in 0..99 : ToString(i) = t
                    -> Digits(CHOOSE i \in 0..99 : ToString(i) = t)
      [] OTHER      -> <<t>>

PyNone == [k |-> "none", n |-> 0, s |-> <<>>]
PyBool(b) == [k |-> "bool", n |-> IF b THEN 1 ELSE 0, s |-> <<>>]
PyInt(i) == [k |-> "int", n |-> i, s |-> <<>>]
PyFloat(i) == [k |-> "float", n |-> i, s |-> <<>>]
PyStr(t) == [k |-> "str", n |-> 0, s |-> Chars(t)]
\* the str made of the characters cs
PyText(cs) == [k |-> "str", n |-> 0, s |-> cs]

IsNumber(v) == v.k \in {"bool", "int", "float"}

\* bool(v)
Truthy(v) ==
    CASE v.k = "none" -> FALSE
      [] v.k = "str"  -> v.s # <<>>
      [] OTHER        -> v.n # 0 \/ v.s # <<>>

\* a or b
PyOr(a, b) == IF Truthy(a) THEN a ELSE b

\* a == b
PyEq(a, b) ==
    CASE IsNumber(a) /\ IsNumber(b)   -> a.n = b.n /\ a.s = b.s
      [] a.k = "str" /\ b.k = "str"   -> a.s = b.s
      [] a.k = "none" /\ b.k = "none" -> TRUE
      [] OTHER                        -> FALSE

(***************************************************************************)
(* Texts: sequences of characters, as str(), f-strings, str.replace,       *)
(* str.strip and float() produce and consume them.  The characters are     *)
(* digits, the decimal point, blanks and the letters of units and words;   *)
(* signs, exponents, inf and nan are not among them.                       *)
(***************************************************************************)
\* a number's digits, with its fractional digits when it has some and with ".0"
\* when it is whole and point is set
NumChars(v, point) ==
    Digits(v.n) \o (IF v.s # <<>> THEN <<".">> \o v.s
                    ELSE IF point THEN <<".", "0">> ELSE <<>>)

\* str(v)
StrOf(v) ==
    CASE v.k = "none"  -> <<"N", "o", "n", "e">>
      [] v.k = "bool"  -> IF v.n # 0 THEN <<"T", "r", "u", "e">>
                          ELSE <<"F", "a", "l", "s", "e">>
      [] v.k = "int"   -> Digits(v.n)
      [] v.k = "float" -> NumChars(v, TRUE)
      [] OTHER         -> v.s

\* str(u) inside the f-string: the suffix that a unit value prints
UnitText(u) == StrOf(u)

\* f"{val}{suffix}"; str(val) when the suffix is empty
NumText(v, suffix) == StrOf(v) \o suffix

\* text.replace(old, ""): every occurrence of old, from the left, is removed; an
\* empty old leaves the text as it is
RECURSIVE Replace(_, _)
Replace(text, old) ==
    IF old = <<>> \/ Len(text) < Len(old) THEN text
    ELSE IF SubSeq(text, 1, Len(old)) = old
    THEN Replace(SubSeq(text, Len(old) + 1, Len(text)), old)
    ELSE <<text[1]>> \o Replace(Tail(text), old)

Blank == {" ", "\t", "\n"}

\* text.strip()
RECURSIVE Strip(_)
Strip(text) ==
    IF text = <<>> THEN text
    ELSE IF text[1] \in Blank THEN Strip(Tail(text))
    ELSE IF text[Len(text)] \in Blank THEN Strip(SubSeq(text, 1, Len(text) - 1))
    ELSE text

\* text.replace(unit, "").strip()
StripUnit(text, unit) == Strip(Replace(text, unit))

AllDigits(cs) == \A i \in 1..Len(cs) : IsDigit(cs[i])

\* digits with at most one decimal point and at least one digit
IsNumeral(cs) ==
    \/ cs # <<>> /\ AllDigits(cs)
    \/ /\ Len(cs) > 1
       /\ \E i \in 1..Len(cs) :
            /\ cs[i] = "."
            /\ AllDigits(SubSeq(cs, 1, i - 1))
            /\ AllDigits(SubSeq(cs, i + 1, Len(cs)))

RECURSIVE DropZeros(_)
DropZeros(ds) ==
    IF ds # <<>> /\ ds[Len(ds)] = "0" THEN DropZeros(SubSeq(ds, 1, Len(ds) - 1))
    ELSE ds

\* the place of the decimal point in a numeral, past its end when it has none
PointOf(cs) ==
    IF \E i \in 1..Len(cs) : cs[i] = "." THEN CHOOSE i \in 1..Len(cs) : cs[i] = "."
    ELSE Len(cs) + 1

\* the float a numeral writes, its decimal point at p
NumeralAt(cs, p) ==
    [k |-> "float", n |-> NumberOf(SubSeq(cs, 1, p - 1)),
     s |-> DropZeros(SubSeq(cs, p + 1, Len(cs)))]

NumeralValue(cs) == NumeralAt(cs, PointOf(cs))

\* the float that the characters cs write, or ValueError when they are no numeral
ParseFloat(cs) ==
    IF IsNumeral(cs) THEN [err |-> "", val |-> NumeralValue(cs)]
    ELSE [err |-> "ValueError", val |-> PyNone]

\* float(text) of a str: blanks around the numeral are ignored
FloatOfText(text) == ParseFloat(Strip(text))

\* float(v): the value, or the exception raised
FloatOfValue(v) ==
    CASE IsNumber(v)  -> [err |-> "", val |-> [k |-> "float", n |-> v.n, s |-> v.s]]
      [] v.k = "none" -> [err |-> "TypeError", val |-> PyNone]
      [] OTHER        -> FloatOfText(v.s)

(***************************************************************************)
(* Unit tables.                                                            *)
(***************************************************************************)
UNIT_PAIRS == << <<"m2", "m**2">>, <<"m3", "m**3">>, <<"mm", "mm">>, <<"m", "m">> >>

\* a dict built from pairs: the last pair with a key gives its value
DictGet(keyAt, valAt, key, default) ==
    LET hits == {i \in 1..Len(UNIT_PAIRS) : Chars(UNIT_PAIRS[i][keyAt]) = key}
    IN  IF hits = {} THEN default
        ELSE LET last == CHOOSE i \in hits : \A j \in hits : j <= i
             IN  PyStr(UNIT_PAIRS[last][valAt])

CATIA_TO_OM_UNIT_MAP(key, default) ==
    IF key.k = "str" THEN DictGet(1, 2, key.s, default) ELSE default

OM_TO_CATIA_UNIT_MAP(key, default) ==
    IF key.k = "str" THEN DictGet(2, 1, key.s, default) ELSE default

units_catia_to_om(catia_unit) == CATIA_TO_OM_UNIT_MAP(catia_unit, catia_unit)

\* units_om_to_catia looking the unit up in the table of the other direction
units_om_to_catia_other_table(om_unit) == CATIA_TO_OM_UNIT_MAP(om_unit, om_unit)

units_om_to_catia(om_unit) == OM_TO_CATIA_UNIT_MAP(om_unit, om_unit)

(***************************************************************************)
(* The CAD application's parameter objects.  A parameter has a type name,  *)
(* a Unit property when it is a dimension (with the unit's symbol), a      *)
(* value and a comment.                                                    *)
(***************************************************************************)
Param(type, hasUnit, symbol, value, comment) ==
    [type |-> type, hasUnit |-> hasUnit, symbol |-> symbol, value |-> value,
     comment |-> comment]

\* param.ValueAsString(): the value as the application prints it, followed by the
\* unit's symbol
ValueAsString(param) ==
    (IF param.value.k = "str" THEN param.value.s ELSE NumChars(param.value, FALSE))
        \o (IF param.hasUnit THEN Chars(param.symbol) ELSE <<>>)

\* What the application makes of a text that is not a number followed by the
\* parameter's own unit symbol is its business: it converts to some number or
\* refuses.
ConvOutcomes ==
    {[raised |-> TRUE, n |-> 0]} \cup {[raised |-> FALSE, n |-> i] : i \in 0..MaxVal}

\* the greatest member of a set of lengths, 0 when it is empty
Longest(ks) == IF ks = {} THEN 0 ELSE CHOOSE k \in ks : \A j \in ks : j <= k

\* the length of the longest numeral a text starts with, 0 when it starts with none
NumeralPrefix(text) == Longest({k \in 1..Len(text) : IsNumeral(SubSeq(text, 1, k))})

\* the parameter valued from a text that starts with a numeral of k characters
Valuated(param, text, k, conv) ==
    LET own == IF param.hasUnit THEN Chars(param.symbol) ELSE <<>>
    IN  IF k > 0 /\ Strip(SubSeq(text, k + 1, Len(text))) = own
        THEN [err |-> "", param |-> [param EXCEPT !.value = NumeralValue(SubSeq(text, 1, k))]]
        ELSE IF conv.raised
        THEN [err |-> "com_error", param |-> param]
        ELSE [err |-> "", param |-> [param EXCEPT !.value = PyFloat(conv.n)]]

\* param.ValuateFromString(text)
ValuateFromString(param, text, conv) == Valuated(param, text, NumeralPrefix(text), conv)

\* param.Value = val: the application stores the value in the parameter's own
\* type, as Automation coerces a variant, and refuses what it cannot coerce
\* the parameter after param.Value = val, where number is what float(val) gives
Coerced(param, val, number) ==
    LET ok(v)  == [err |-> "", param |-> [param EXCEPT !.value = v]]
        refuse == [err |-> "com_error", param |-> param]
    IN  CASE param.type = "StrParam" ->
                 IF val.k = "str" THEN ok(val)
                 ELSE IF val.k = "none" THEN refuse
                 ELSE IF val.k = "bool" THEN ok(PyText(StrOf(val)))
                 ELSE ok(PyText(NumChars(val, FALSE)))
          [] param.type = "BoolParam" ->
                 IF number.err # "" THEN refuse ELSE ok(PyBool(Truthy(number.val)))
          [] param.type = "IntParam" ->
                 IF number.err # "" THEN refuse ELSE ok(PyInt(number.val.n))
          [] OTHER -> ok(val)

SetValue(param, val) == Coerced(param, val, FloatOfValue(val))

(***************************************************************************)
(* parameter_type_value_and_unit and set_parameter_value.                  *)
(***************************************************************************)
DISCRETE_TYPE_LIST == {"BoolParam", "IntParam", "StrParam"}

\* the result (type_, value, unit) where value is the outcome f of a float() call
TypeValueUnit(type_, f, unit) ==
    [err |-> f.err, type |-> type_, value |-> f.val, unit |-> unit]

parameter_type_value_and_unit(param) ==
    IF param.hasUnit
    THEN TypeValueUnit("Dimension",
                       FloatOfText(StripUnit(ValueAsString(param),
                                             PyOr(PyStr(param.symbol), PyStr("")).s)),
                       PyStr(param.symbol))
    ELSE IF param.type = "RealParam"
    THEN TypeValueUnit(param.type, FloatOfText(ValueAsString(param)), PyNone)
    ELSE IF param.type \in DISCRETE_TYPE_LIST
    THEN [err |-> "", type |-> param.type, value |-> param.value, unit |-> PyNone]
    ELSE [err |-> "ValueError", type |-> param.type, value |-> PyNone, unit |-> PyNone]

set_parameter_value(param, val, om_units, conv) ==
    IF param.hasUnit
    THEN LET catia_units == units_om_to_catia(om_units)
         IN  ValuateFromString(param, NumText(val, UnitText(catia_units)), conv)
    ELSE IF param.type = "RealParam"
    THEN ValuateFromString(param, NumText(val, <<>>), conv)
    ELSE IF param.type \in DISCRETE_TYPE_LIST
    THEN SetValue(param, val)
    ELSE [err |-> "ValueError", param |-> param]

(***************************************************************************)
(* reflect_parameter: a copy of source_param is created among               *)
(* destination_params; the result is the parameters with the copy and the  *)
(* unit symbol returned beside it, or the TypeError raised.  CreateDimension *)
(* makes a parameter of the source's magnitude valued 0.                   *)
(***************************************************************************)
reflect_parameter(source_param, destination_params, destination_param_name, conv) ==
    LET source_param_type == source_param.type
        with(new_param) ==
            [x \in DOMAIN destination_params \cup {destination_param_name} |->
                IF x = destination_param_name THEN new_param ELSE destination_params[x]]
    IN  IF source_param_type \in {"Dimension", "Length", "Angle"}
        THEN LET created == Param(source_param_type, TRUE, source_param.symbol,
                                  PyFloat(0), "")
                 valued  == ValuateFromString(created, ValueAsString(source_param), conv)
             IN  [err |-> valued.err, params |-> with(valued.param),
                  unit |-> IF valued.err = "" THEN PyStr(created.symbol) ELSE PyNone]
        ELSE IF source_param_type = "RealParam"
        THEN [err |-> "",
              params |-> with(Param("RealParam", FALSE, "",
                                    FloatOfValue(source_param.value).val, "")),
              unit |-> PyNone]
        ELSE [err |-> "TypeError", params |-> destination_params, unit |-> PyNone]

(***************************************************************************)
(* _gen_var_mappings.  An entry of the options dict is <<catia_name, var>>; *)
(* var is a plain name (form "str") or a dict (form "dict").               *)
(***************************************************************************)
Var(form, name, val, units, discrete, desc) ==
    [form |-> form, name |-> name, val |-> val, units |-> units,
     discrete |-> discrete, desc |-> desc]

\* what the user gave for one variable
Given(var) ==
    IF var.form = "str"
    THEN [om_name |-> var.name, discrete |-> PyNone, val |-> PyNone,
          units |-> PyNone, desc |-> PyStr("")]
    ELSE [om_name |-> var.name, discrete |-> var.discrete, val |-> var.val,
          units |-> var.units, desc |-> var.desc]

\* the inference applied whatever the user gave
Discrete_inferred_always(given_discrete, catia_type) ==
    IF given_discrete = PyBool(FALSE) /\ catia_type \in {"StrParam"}
    THEN [err |-> "ValueError", discrete |-> PyNone]
    ELSE [err |-> "", discrete |-> PyBool(catia_type \in DISCRETE_TYPE_LIST)]

\* the discrete field of a mapping, or the error that stops the generator
Discrete(given_discrete, catia_type) ==
    IF given_discrete.k = "none"
    THEN [err |-> "", discrete |-> PyBool(catia_type \in DISCRETE_TYPE_LIST)]
    ELSE IF given_discrete = PyBool(FALSE) /\ catia_type \in {"StrParam"}
    THEN [err |-> "ValueError", discrete |-> PyNone]
    ELSE [err |-> "", discrete |-> given_discrete]

CatiaVarMapping(catia_name, om_name, val, units, desc, discrete) ==
    [catia_name |-> catia_name, om_name |-> om_name, val |-> val, units |-> units,
     desc |-> desc, discrete |-> discrete]

NoMapping(catia_name, given) ==
    CatiaVarMapping(catia_name, given.om_name, PyNone, PyNone, PyNone, PyNone)

\* the loop's body from the parameter on: tvu is what
\* parameter_type_value_and_unit returned or raised, d the discrete field
GenMapping(catia_name, given, catia_param, tvu, d) ==
    IF tvu.err # "" THEN [err |-> tvu.err, mapping |-> NoMapping(catia_name, given)]
    ELSE IF d.err # "" THEN [err |-> d.err, mapping |-> NoMapping(catia_name, given)]
    ELSE [err |-> "",
          mapping |-> CatiaVarMapping(catia_name, given.om_name,
                          PyOr(given.val, tvu.value),
                          PyOr(units_catia_to_om(tvu.unit), given.units),
                          PyOr(given.desc, PyStr(catia_param.comment)),
                          d.discrete)]

\* the loop's body from the result of parameter_type_value_and_unit on
GenTyped(catia_name, given, catia_param, tvu) ==
    GenMapping(catia_name, given, catia_param, tvu, Discrete(given.discrete, tvu.type))

\* one turn of the generator's loop: a mapping, or the ValueError raised
GenOne(catia_name, var, ps) ==
    IF catia_name \notin DOMAIN ps
    THEN [err |-> "ValueError", mapping |-> NoMapping(catia_name, Given(var))]
    ELSE GenTyped(catia_name, Given(var), ps[catia_name],
                  parameter_type_value_and_unit(ps[catia_name]))

RECURSIVE GenFrom(_, _, _, _)
\* the generator after the turn for entry i gave one
GenNext(var_dict, ps, i, acc, one) ==
    IF one.err # "" THEN [err |-> one.err, mappings |-> acc]
    ELSE GenFrom(var_dict, ps, i + 1, Append(acc, one.mapping))

GenFrom(var_dict, ps, i, acc) ==
    IF i > Len(var_dict) THEN [err |-> "", mappings |-> acc]
    ELSE GenNext(var_dict, ps, i, acc, GenOne(var_dict[i][1], var_dict[i][2], ps))

\* list(_gen_var_mappings(var_dict, root_object))
gen_var_mappings(var_dict, ps) == GenFrom(var_dict, ps, 1, <<>>)

(***************************************************************************)
(* The CAD application and its sessions.  catia.count numbers the sessions *)
(* ever started; catia.loaded[path] is the number of times the document at *)
(* path is open in the running session (its STI database item is its own   *)
(* parent when that is 0).                                                 *)
(***************************************************************************)
Paths == {"a.CATPart", "b.CATPart"}
file_path == "a.CATPart"
Captions == {"foobar", "baz"}

NoSession(count) ==
    [running |-> FALSE, sid |-> 0, count |-> count, caption |-> "",
     DisplayFileAlerts |-> TRUE, loaded |-> [p \in Paths |-> 0]]

\* the application as a new process leaves it
NewSession(count) ==
    [running |-> TRUE, sid |-> count + 1, count |-> count + 1, caption |-> "CATIA V5",
     DisplayFileAlerts |-> TRUE, loaded |-> [p \in Paths |-> 0]]

Call(op, arg, c) == [op |-> op, arg |-> arg, alerts |-> c.DisplayFileAlerts]

\* get_catia_session that starts an application without trying to attach
get_catia_session_dispatch_only(c) ==
    LET n == NewSession(c.count)
    IN  [catia |-> n, session |-> n.sid, dispatched |-> 1,
         calls |-> <<Call("Dispatch", "CATIA.Application", n)>>]

\* get_catia_session(): GetObject attaches to the running application and raises
\* com_error when there is none; Dispatch then starts one.
get_catia_session(c) ==
    IF c.running
    THEN [catia |-> c, session |-> c.sid, dispatched |-> 0,
          calls |-> <<Call("GetObject", "CATIA.Application", c)>>]
    ELSE LET n == NewSession(c.count)
         IN  [catia |-> n, session |-> n.sid, dispatched |-> 1,
              calls |-> <<Call("GetObject", "CATIA.Application", c),
                          Call("Dispatch", "CATIA.Application", n)>>]

\* catia_alive(catia): reading Caption through the handle succeeds
catia_alive(c, session) == c.running /\ c.sid = session

\* load_document that opens the file without looking at the STI database item
load_document_always_open(c, path, open_, openRaises) ==
    LET old_display_file_alerts == c.DisplayFileAlerts
        quiet   == [c EXCEPT !.DisplayFileAlerts = FALSE]
        opening == Call(IF open_ THEN "Open" ELSE "Read", path, quiet)
        after   == IF openRaises THEN quiet
                   ELSE [quiet EXCEPT !.loaded[path] = @ + 1]
        final   == [after EXCEPT !.DisplayFileAlerts = old_display_file_alerts]
    IN  [catia |-> final,
         err   |-> IF openRaises THEN "com_error" ELSE "",
         doc   |-> IF openRaises THEN "" ELSE path,
         calls |-> <<Call("GetItem", "CAIEngine", c),
                     Call("GetStiDBItemFromCATBSTR", path, c), opening>>]

\* load_document restoring DisplayFileAlerts after the call instead of in a finally
\* clause: the setting is not restored when Open / Read raises
load_document_no_finally(c, path, open_, openRaises) ==
    LET lookup == <<Call("GetItem", "CAIEngine", c),
                    Call("GetStiDBItemFromCATBSTR", path, c)>>
    IN  IF c.loaded[path] = 0
        THEN LET old_display_file_alerts == c.DisplayFileAlerts
                 quiet   == [c EXCEPT !.DisplayFileAlerts = FALSE]
                 opening == Call(IF open_ THEN "Open" ELSE "Read", path, quiet)
                 after   == IF openRaises THEN quiet
                            ELSE [quiet EXCEPT !.loaded[path] = @ + 1]
                 final   == IF openRaises THEN after
                            ELSE [after EXCEPT
                                    !.DisplayFileAlerts = old_display_file_alerts]
             IN  [catia |-> final,
                  err   |-> IF openRaises THEN "com_error" ELSE "",
                  doc   |-> IF openRaises THEN "" ELSE path,
                  calls |-> Append(lookup, opening)]
        ELSE [catia |-> c, err |-> "", doc |-> path,
              calls |-> Append(lookup, Call("GetDocument", path, c))]

\* load_document(catia, path, open_); openRaises: Documents.Open / Read fails
load_document(c, path, open_, openRaises) ==
    LET lookup == <<Call("GetItem", "CAIEngine", c),
                    Call("GetStiDBItemFromCATBSTR", path, c)>>
    IN  IF c.loaded[path] = 0
        THEN LET old_display_file_alerts == c.DisplayFileAlerts
                 quiet   == [c EXCEPT !.DisplayFileAlerts = FALSE]
                 opening == Call(IF open_ THEN "Open" ELSE "Read", path, quiet)
                 after   == IF openRaises THEN quiet
                            ELSE [quiet EXCEPT !.loaded[path] = @ + 1]
                 final   == [after EXCEPT !.DisplayFileAlerts = old_display_file_alerts]
             IN  [catia |-> final,
                  err   |-> IF openRaises THEN "com_error" ELSE "",
                  doc   |-> IF openRaises THEN "" ELSE path,
                  calls |-> Append(lookup, opening)]
        ELSE [catia |-> c, err |-> "", doc |-> path,
              calls |-> Append(lookup, Call("GetDocument", path, c))]

NoDoc == [path |-> "", open_ |-> TRUE, wasLoaded |-> FALSE, err |-> "", doc |-> ""]

(***************************************************************************)
(* The component: setup.                                                   *)
(***************************************************************************)
EmptyMap == <<>>

\* d[k] = v, adding k to the dict when it is new
Put(d, k, v) == [x \in DOMAIN d \cup {k} |-> IF x = k THEN v ELSE d[x]]

\* the add_input / add_discrete_input (add_output / add_discrete_output) call for
\* one mapping; dir is "input" or "output"
Declaration(m, dir) ==
    IF Truthy(m.discrete)
    THEN [kind |-> "discrete_" \o dir, name |-> m.om_name, catia_name |-> m.catia_name,
          val |-> m.val, units |-> PyNone, desc |-> m.desc]
    ELSE [kind |-> dir, name |-> m.om_name, catia_name |-> m.catia_name,
          val |-> m.val, units |-> m.units, desc |-> m.desc]

Declarations(mappings, dir) == [i \in 1..Len(mappings) |-> Declaration(mappings[i], dir)]

\* the value the framework holds for a declared variable: a continuous variable
\* holds a float when its val makes one
StoredValue(kind, val) ==
    IF kind \in {"input", "output"} /\ FloatOfValue(val).err = ""
    THEN FloatOfValue(val).val
    ELSE val

\* the values the framework holds for the declared variables of one kind
RECURSIVE Values(_, _, _)
Values(decls, kind, i) ==
    IF i = 0 THEN EmptyMap
    ELSE LET rest == Values(decls, kind, i - 1)
             d    == decls[i]
         IN  IF d.kind # kind THEN rest
             ELSE Put(rest, d.name, StoredValue(kind, d.val))

\* setup declaring the inputs before the output mappings are built
SetupMappings_inputs_first(ins, outs, ps) ==
    LET im == gen_var_mappings(ins, ps)
        om == gen_var_mappings(outs, ps)
    IN  IF im.err # ""
        THEN [err |-> im.err, input_mappings |-> <<>>, output_mappings |-> <<>>,
              declared |-> <<>>]
        ELSE IF om.err # ""
        THEN [err |-> om.err, input_mappings |-> im.mappings, output_mappings |-> <<>>,
              declared |-> Declarations(im.mappings, "input")]
        ELSE [err |-> "", input_mappings |-> im.mappings,
              output_mappings |-> om.mappings,
              declared |-> Declarations(im.mappings, "input")
                           \o Declarations(om.mappings, "output")]

\* the body of setup from the mapping lists on: both lists are built, then the
\* variables are declared
SetupMappings(ins, outs, ps) ==
    LET im == gen_var_mappings(ins, ps)
        om == gen_var_mappings(outs, ps)
    IN  IF im.err # ""
        THEN [err |-> im.err, input_mappings |-> <<>>, output_mappings |-> <<>>,
              declared |-> <<>>]
        ELSE IF om.err # ""
        THEN [err |-> om.err, input_mappings |-> im.mappings, output_mappings |-> <<>>,
              declared |-> <<>>]
        ELSE [err |-> "", input_mappings |-> im.mappings,
              output_mappings |-> om.mappings,
              declared |-> Declarations(im.mappings, "input")
                           \o Declarations(om.mappings, "output")]

(***************************************************************************)
(* Initial states: a document with two parameters, P1 of any kind and P2   *)
(* an integer, and the options the component is constructed with.          *)
(***************************************************************************)
ParamKinds ==
    {[type |-> "RealParam", hasUnit |-> FALSE, symbol |-> ""],
     [type |-> "IntParam",  hasUnit |-> FALSE, symbol |-> ""],
     [type |-> "StrParam",  hasUnit |-> FALSE, symbol |-> ""],
     [type |-> "BoolParam", hasUnit |-> FALSE, symbol |-> ""],
     [type |-> "Length",    hasUnit |-> TRUE,  symbol |-> "mm"],
     [type |-> "Area",      hasUnit |-> TRUE,  symbol |-> "m2"],
     [type |-> "Dimension", hasUnit |-> TRUE,  symbol |-> ""],
     [type |-> "ListParam", hasUnit |-> FALSE, symbol |-> ""]}

\* a value of the parameter's type for the number i
ValueOfType(type, i) ==
    CASE type = "StrParam"  -> PyText(IF i = 0 THEN <<>> ELSE Digits(i))
      [] type = "BoolParam" -> PyBool(i # 0)
      [] type = "IntParam"  -> PyInt(i)
      [] OTHER              -> PyFloat(i)

\* the values the parameter P1 may have in the document
CadVals(type) ==
    {ValueOfType(type, 1)} \cup (IF type = "StrParam" THEN {PyStr("d")} ELSE {})

GivenVals(type) == {PyNone, ValueOfType(type, 0), ValueOfType(type, MaxVal + 1)}
\* the discrete flag: absent, a bool, or a number used as one
GivenDiscretes == {PyNone, PyBool(TRUE), PyBool(FALSE), PyInt(0)}
GivenUnits == {PyNone, PyStr("mm"), PyStr("m**2")}
\* a desc is given, or not, where neither val nor units is given
GivenDescs(gv, gu) ==
    IF gv = PyNone /\ gu = PyNone THEN {PyStr(""), PyStr("d")} ELSE {PyStr("")}

\* the inputs and outputs options: P1 is given as a dict, the others by name
OptionSets(gv, gu, gd, gdesc) ==
    LET in1  == <<"P1", Var("dict", "in-P1", gv, gu, gd, gdesc)>>
        out1 == <<"P1", Var("dict", "out-P1", gv, gu, gd, gdesc)>>
        in2  == <<"P2", Var("str", "in-P2", PyNone, PyNone, PyNone, PyNone)>>
        out2 == <<"P2", Var("str", "out-P2", PyNone, PyNone, PyNone, PyNone)>>
        inX  == <<"P3", Var("str", "in-P3", PyNone, PyNone, PyNone, PyNone)>>
        outX == <<"P3", Var("str", "out-P3", PyNone, PyNone, PyNone, PyNone)>>
    IN  {[ins |-> <<in1>>,      outs |-> <<out1>>],
         [ins |-> <<in1, in2>>, outs |-> <<out2, out1>>],
         [ins |-> <<in1>>,      outs |-> <<out1, outX>>],
         [ins |-> <<in2, inX>>, outs |-> <<out1>>],
         [ins |-> <<>>,         outs |-> <<out1>>]}

InitCad(c, ps, e) ==
    /\ catia = c
    /\ env = e
    /\ params = ps
    /\ handles = {}
    /\ started = 0
    /\ comLog = <<>>
    /\ lastDoc = NoDoc

InitComp(ins, outs) ==
    /\ opt_inputs = ins
    /\ opt_outputs = outs
    /\ input_mappings = <<>>
    /\ output_mappings = <<>>
    /\ declared = <<>>
    /\ inputs = EmptyMap
    /\ discrete_inputs = EmptyMap
    /\ outputs = EmptyMap
    /\ discrete_outputs = EmptyMap
    /\ pc = "new"
    /\ idx = 0
    /\ err = ""
    /\ computes = 0

InitUnits ==
    /\ unitTrail = <<>>
    /\ unitOps = <<>>

\* the document is a part, a product or an analysis, or of another type; the
\* file can be opened or not; assert statements run, or python runs with -O
DocTypes == {"PartDocument", "DrawingDocument"}
DefaultEnv == [doc_type |-> "PartDocument", opens |-> TRUE, debug |-> TRUE]

\* the application and the environment a component is set up in: no session yet or
\* a session with the document loaded; with no session, a file that cannot be
\* opened or a document of any type; with the document loaded, python -O
Worlds ==
    LET fresh  == NoSession(0)
        loaded == [NewSession(0) EXCEPT !.loaded[file_path] = 1]
    IN  {[catia |-> fresh, env |-> [DefaultEnv EXCEPT !.doc_type = d]] : d \in DocTypes}
        \cup {[catia |-> fresh,  env |-> [DefaultEnv EXCEPT !.opens = FALSE]],
              [catia |-> loaded, env |-> DefaultEnv],
              [catia |-> loaded, env |-> [DefaultEnv EXCEPT !.debug = FALSE]]}

DefaultParams ==
    [name \in {"P1", "P2"} |->
        IF name = "P1" THEN Param("RealParam", FALSE, "", PyFloat(1), "c")
        ELSE Param("IntParam", FALSE, "", PyInt(0), "")]

Init ==
    /\ \E kind \in ParamKinds, gu \in GivenUnits, gd \in GivenDiscretes, w \in Worlds :
         \E gv \in GivenVals(kind.type), cv \in CadVals(kind.type) :
           \E gdesc \in GivenDescs(gv, gu) :
             \E o \in OptionSets(gv, gu, gd, gdesc) :
               /\ InitComp(o.ins, o.outs)
               /\ InitCad(w.catia,
                          [DefaultParams EXCEPT !["P1"] =
                              Param(kind.type, kind.hasUnit, kind.symbol, cv, "c")],
                          w.env)
    /\ InitUnits

(***************************************************************************)
(* setup.  The parameters of the document's root object are params.        *)
(***************************************************************************)
\* RootType.from_doc_type_name(type_name)
from_doc_type_name(type_name) ==
    CASE type_name = "AnalysisDocument" -> [err |-> "", root_type |-> "ANALYSIS"]
      [] type_name = "PartDocument"     -> [err |-> "", root_type |-> "PART"]
      [] type_name = "ProductDocument"  -> [err |-> "", root_type |-> "PRODUCT"]
      [] OTHER                          -> [err |-> "ValueError", root_type |-> ""]

Setup ==
    /\ pc = "new"
    /\ LET s  == get_catia_session(catia)
           ld == load_document(s.catia, file_path, TRUE, ~env.opens)
           rt == from_doc_type_name(env.doc_type)
           r  == IF ld.err # "" \/ rt.err # ""
                 THEN [err |-> IF ld.err # "" THEN ld.err ELSE rt.err,
                       input_mappings |-> <<>>, output_mappings |-> <<>>,
                       declared |-> <<>>]
                 ELSE SetupMappings(opt_inputs, opt_outputs, params)
       IN  /\ catia' = ld.catia
           /\ handles' = handles \cup {s.session}
           /\ started' = started + s.dispatched
           /\ comLog' = s.calls \o ld.calls
           /\ lastDoc' = [path |-> file_path, open_ |-> TRUE,
                          wasLoaded |-> s.catia.loaded[file_path] > 0,
                          err |-> ld.err, doc |-> ld.doc]
           /\ input_mappings' = r.input_mappings
           /\ output_mappings' = r.output_mappings
           /\ declared' = r.declared
           /\ inputs' = Values(r.declared, "input", Len(r.declared))
           /\ discrete_inputs' = Values(r.declared, "discrete_input", Len(r.declared))
           /\ outputs' = Values(r.declared, "output", Len(r.declared))
           /\ discrete_outputs' = Values(r.declared, "discrete_output", Len(r.declared))
           /\ pc' = IF r.err = "" THEN "ready" ELSE "failed"
           /\ err' = r.err
    /\ UNCHANGED <<env, params, opt_inputs, opt_outputs, idx, computes, unitVars>>

\* the framework's vectors hold floats: final_setup stops the problem when the val
\* of a continuous variable makes none, and no evaluation follows
FinalSetupOk ==
    /\ \A name \in DOMAIN inputs : inputs[name].k = "float"
    /\ \A name \in DOMAIN outputs : outputs[name].k = "float"

(***************************************************************************)
(* prob.set_val on an input, between setup and an evaluation               *)
(***************************************************************************)
SetVal ==
    /\ pc = "ready"
    /\ FinalSetupOk
    /\ computes < MaxComputes
    /\ \E i \in 1..Len(input_mappings), n \in 0..MaxVal :
         LET m == input_mappings[i]
             v == ValueOfType(params[m.catia_name].type, n)
         IN  IF Truthy(m.discrete)
             THEN /\ discrete_inputs' = [discrete_inputs EXCEPT ![m.om_name] = v]
                  /\ UNCHANGED inputs
             ELSE /\ inputs' = [inputs EXCEPT ![m.om_name] = PyFloat(n)]
                  /\ UNCHANGED discrete_inputs
    /\ comLog' = <<>>
    /\ UNCHANGED <<env, catia, params, handles, started, lastDoc, opt_inputs, opt_outputs, input_mappings, output_mappings,
                   declared, outputs, discrete_outputs, pc, idx, err, computes,
                   unitVars>>

(***************************************************************************)
(* compute, one automation call at a time                                  *)
(***************************************************************************)
ComputeStart ==
    /\ pc = "ready"
    /\ FinalSetupOk
    /\ computes < MaxComputes
    /\ computes' = computes + 1
    /\ comLog' = <<>>
    /\ idx' = 1
    /\ pc' = IF Len(input_mappings) = 0 THEN "activate" ELSE "write"
    /\ UNCHANGED <<env, catia, params, handles, started, lastDoc, opt_inputs, opt_outputs,
                   input_mappings, output_mappings, declared, inputs, discrete_inputs,
                   outputs, discrete_outputs, err, unitVars>>

\* one turn of the loop over self.input_mappings
ComputeWrite ==
    /\ pc = "write"
    /\ LET m   == input_mappings[idx]
           val == IF Truthy(m.discrete) THEN discrete_inputs[m.om_name]
                  ELSE inputs[m.om_name]
       IN  \E conv \in ConvOutcomes :
             LET r == set_parameter_value(params[m.catia_name], val, m.units, conv)
             IN  /\ params' = [params EXCEPT ![m.catia_name] = r.param]
                 /\ comLog' = Append(comLog, Call("write", m.catia_name, catia))
                 /\ err' = r.err
                 /\ pc' = IF r.err # "" THEN "error"
                          ELSE IF idx = Len(input_mappings) THEN "activate"
                          ELSE "write"
                 /\ idx' = idx + 1
    /\ UNCHANGED <<env, catia, handles, started, lastDoc, opt_inputs, opt_outputs,
                   input_mappings, output_mappings, declared, inputs, discrete_inputs,
                   outputs, discrete_outputs, computes, unitVars>>

\* compute reading the outputs right after Activate, without Update
ComputeActivate_no_update ==
    /\ pc = "activate"
    /\ comLog' = Append(comLog, Call("Activate", file_path, catia))
    /\ pc' = IF Len(output_mappings) = 0 THEN "ready" ELSE "read"
    /\ idx' = 1
    /\ UNCHANGED <<env, catia, params, handles, started, lastDoc, optVars, inputs,
                   discrete_inputs, outputs, discrete_outputs, err, computes,
                   unitVars>>

\* self.root_document.Activate()
ComputeActivate ==
    /\ pc = "activate"
    /\ comLog' = Append(comLog, Call("Activate", file_path, catia))
    /\ pc' = "update"
    /\ UNCHANGED <<env, catia, params, handles, started, lastDoc, optVars, inputs,
                   discrete_inputs, outputs, discrete_outputs, idx, err, computes,
                   unitVars>>

\* self.root_object.Update(): the document has no relations, so no parameter changes
ComputeUpdate ==
    /\ pc = "update"
    /\ comLog' = Append(comLog, Call("Update", file_path, catia))
    /\ pc' = IF Len(output_mappings) = 0 THEN "ready" ELSE "read"
    /\ idx' = 1
    /\ UNCHANGED <<env, catia, params, handles, started, lastDoc, optVars, inputs,
                   discrete_inputs, outputs, discrete_outputs, err, computes,
                   unitVars>>

\* assert catia_unit == units_om_to_catia(output_mapping.units)
UnitAssertion(catia_unit, units) == PyEq(catia_unit, units_om_to_catia(units))

\* the body of the loop over self.output_mappings: the value to store, or the
\* exception raised; the assert statement runs only when debug is set
ReadOutput(m, param, debug) ==
    LET tvu == parameter_type_value_and_unit(param)
    IN  IF tvu.err # "" THEN [err |-> tvu.err, val |-> PyNone]
        ELSE IF debug /\ ~UnitAssertion(tvu.unit, m.units)
        THEN [err |-> "AssertionError", val |-> PyNone]
        ELSE IF Truthy(m.discrete) THEN [err |-> "", val |-> tvu.value]
        ELSE FloatOfValue(tvu.value)

\* one turn of the loop over self.output_mappings
ComputeRead ==
    /\ pc = "read"
    /\ LET m == output_mappings[idx]
           r == ReadOutput(m, params[m.catia_name], env.debug)
       IN  /\ comLog' = Append(comLog, Call("read", m.catia_name, catia))
           /\ err' = r.err
           /\ IF r.err # ""
              THEN /\ pc' = "error"
                   /\ UNCHANGED <<outputs, discrete_outputs>>
              ELSE /\ pc' = IF idx = Len(output_mappings) THEN "ready" ELSE "read"
                   /\ IF Truthy(m.discrete)
                      THEN /\ discrete_outputs' =
                                [discrete_outputs EXCEPT ![m.om_name] = r.val]
                           /\ UNCHANGED outputs
                      ELSE /\ outputs' = [outputs EXCEPT ![m.om_name] = r.val]
                           /\ UNCHANGED discrete_outputs
           /\ idx' = idx + 1
    /\ UNCHANGED <<env, catia, params, handles, started, lastDoc, optVars, inputs,
                   discrete_inputs, computes, unitVars>>

Next ==
    \/ Setup
    \/ SetVal
    \/ ComputeStart
    \/ ComputeWrite
    \/ ComputeActivate
    \/ ComputeUpdate
    \/ ComputeRead

Spec == Init /\ [][Next]_vars

(***************************************************************************)
(* The session helper and the document loader on their own, as the tests   *)
(* and setup call them.                                                    *)
(***************************************************************************)
\* the parameters of the document saved at file_path
SessionParams ==
    [name \in {"P1", "P2", "L1", "A1"} |->
        CASE name = "P1" -> Param("RealParam", FALSE, "", PyFloat(1), "c")
          [] name = "P2" -> Param("IntParam", FALSE, "", PyInt(0), "")
          [] name = "L1" -> Param("Length", TRUE, "mm", PyFloat(1), "")
          [] OTHER       -> Param("Area", TRUE, "m2", PyFloat(1), "")]

\* names for the parameters that reflect_parameter creates
NewNames == {"R1"}

SessionInit ==
    /\ InitCad(NoSession(0), SessionParams, DefaultEnv)
    /\ InitComp(<<>>, <<>>)
    /\ InitUnits

\* utils.get_catia_session()
GetSession ==
    /\ catia.running \/ catia.count < MaxSessions
    /\ LET s == get_catia_session(catia)
       IN  /\ catia' = s.catia
           /\ handles' = handles \cup {s.session}
           /\ started' = started + s.dispatched
           /\ comLog' = s.calls
    /\ UNCHANGED <<env, params, lastDoc, compVars, unitVars>>

\* first.Caption = caption
SetCaption ==
    /\ \E h \in handles, cap \in Captions :
         /\ catia_alive(catia, h)
         /\ catia' = [catia EXCEPT !.caption = cap]
         /\ comLog' = <<Call("Caption", cap, catia)>>
    /\ UNCHANGED <<env, params, handles, started, lastDoc, compVars, unitVars>>

\* catia.DisplayFileAlerts = b
SetDisplayFileAlerts ==
    /\ \E h \in handles, b \in BOOLEAN :
         /\ catia_alive(catia, h)
         /\ catia' = [catia EXCEPT !.DisplayFileAlerts = b]
         /\ comLog' = <<Call("DisplayFileAlerts", "", catia)>>
    /\ UNCHANGED <<env, params, handles, started, lastDoc, compVars, unitVars>>

\* catia.Quit(): what was changed in the documents and not saved is lost
Quit ==
    /\ catia.running
    /\ catia' = NoSession(catia.count)
    /\ handles' = {}
    /\ started' = 0
    /\ params' = SessionParams
    /\ comLog' = <<Call("Quit", "", catia)>>
    /\ UNCHANGED <<env, lastDoc, compVars, unitVars>>

\* load_document(catia, path, open_)
LoadDocument ==
    /\ \E h \in handles, path \in Paths, open_ \in BOOLEAN, openRaises \in BOOLEAN :
         /\ catia_alive(catia, h)
         /\ LET ld == load_document(catia, path, open_, openRaises)
            IN  /\ catia' = ld.catia
                /\ comLog' = ld.calls
                /\ lastDoc' = [path |-> path, open_ |-> open_,
                               wasLoaded |-> catia.loaded[path] > 0,
                               err |-> ld.err, doc |-> ld.doc]
    /\ UNCHANGED <<env, params, handles, started, compVars, unitVars>>

\* doc.Close(): what was changed in the document and not saved is lost
CloseDocument ==
    /\ catia.running
    /\ \E path \in Paths :
         /\ catia.loaded[path] > 0
         /\ catia' = [catia EXCEPT !.loaded[path] = @ - 1]
         /\ params' = IF path = file_path THEN SessionParams ELSE params
         /\ comLog' = <<Call("Close", path, catia)>>
    /\ UNCHANGED <<env, handles, started, lastDoc, compVars, unitVars>>

\* reflect_parameter(source, parameters, name) on the parameters of the document
\* at file_path, loaded in the session
ReflectParameter ==
    /\ catia.running
    /\ catia.loaded[file_path] > 0
    /\ \E source \in DOMAIN params, name \in NewNames, conv \in ConvOutcomes :
         /\ name \notin DOMAIN params
         /\ LET r == reflect_parameter(params[source], params, name, conv)
            IN  /\ params' = r.params
                /\ err' = r.err
                /\ comLog' = <<Call("reflect_parameter", source, catia)>>
    /\ UNCHANGED <<env, catia, handles, started, lastDoc, optVars, inputs,
                   discrete_inputs, outputs, discrete_outputs, pc, idx, computes,
                   unitVars>>

SessionNext ==
    \/ GetSession
    \/ SetCaption
    \/ SetDisplayFileAlerts
    \/ Quit
    \/ LoadDocument
    \/ CloseDocument
    \/ ReflectParameter

SessionSpec == SessionInit /\ [][SessionNext]_vars

(***************************************************************************)
(* The unit translations applied to unit strings.                          *)
(***************************************************************************)
UnitStrings ==
    {PyNone, PyStr(""), PyStr("m2"), PyStr("m3"), PyStr("mm"), PyStr("m"),
     PyStr("m**2"), PyStr("m**3"), PyStr("deg"), PyStr("kg"), PyStr("s")}

UnitInit ==
    /\ InitCad(NoSession(0), DefaultParams, DefaultEnv)
    /\ InitComp(<<>>, <<>>)
    /\ unitOps = <<>>
    /\ \E u \in UnitStrings : unitTrail = <<u>>

ApplyCatiaToOm ==
    /\ Len(unitOps) < MaxOps
    /\ unitTrail' = Append(unitTrail, units_catia_to_om(unitTrail[Len(unitTrail)]))
    /\ unitOps' = Append(unitOps, "catia_to_om")
    /\ UNCHANGED <<cadVars, compVars>>

ApplyOmToCatia ==
    /\ Len(unitOps) < MaxOps
    /\ unitTrail' = Append(unitTrail, units_om_to_catia(unitTrail[Len(unitTrail)]))
    /\ unitOps' = Append(unitOps, "om_to_catia")
    /\ UNCHANGED <<cadVars, compVars>>

UnitNext == ApplyCatiaToOm \/ ApplyOmToCatia

UnitSpec == UnitInit /\ [][UnitNext]_vars

(***************************************************************************)
(* Properties.                                                             *)
(***************************************************************************)
\* the flag the user gave for a variable, None when the variable is a plain name
UserFlag(var) == IF var.form = "str" THEN PyNone ELSE var.discrete
UserVal(var) == IF var.form = "str" THEN PyNone ELSE var.val
UserUnits(var) == IF var.form = "str" THEN PyNone ELSE var.units
UserDesc(var) == IF var.form = "str" THEN PyStr("") ELSE var.desc

\* every mapping built so far, with the options entry it was built from
PairsOf(opts, maps) == {[var |-> opts[i][2], m |-> maps[i]] : i \in 1..Len(maps)}
AllPairs == PairsOf(opt_inputs, input_mappings) \cup PairsOf(opt_outputs, output_mappings)

\* a compute call has returned or raised
ComputeReturned == computes >= 1 /\ pc \in {"ready", "error"} /\ comLog # <<>>

InValue(m) ==
    IF Truthy(m.discrete) THEN discrete_inputs[m.om_name] ELSE inputs[m.om_name]
OutValue(m) ==
    IF Truthy(m.discrete) THEN discrete_outputs[m.om_name] ELSE outputs[m.om_name]

\* C1: once a compute call is over, it has returned normally and every output
\* mapped to a parameter that is also mapped as an input holds the input's value.
C1_RoundTrip ==
    ComputeReturned =>
        /\ pc = "ready"
        /\ \A i \in 1..Len(input_mappings), j \in 1..Len(output_mappings) :
             input_mappings[i].catia_name = output_mappings[j].catia_name
                 => PyEq(OutValue(output_mappings[j]), InValue(input_mappings[i]))

\* the round trip of C1 whenever compute returns normally with its assert
\* statement in force
RoundTripOnReturn ==
    (ComputeReturned /\ pc = "ready" /\ env.debug) =>
        \A i \in 1..Len(input_mappings), j \in 1..Len(output_mappings) :
            input_mappings[i].catia_name = output_mappings[j].catia_name
                => PyEq(OutValue(output_mappings[j]), InValue(input_mappings[i]))

Rank(op) ==
    CASE op = "write"    -> 1
      [] op = "Activate" -> 2
      [] op = "Update"   -> 3
      [] op = "read"     -> 4
      [] OTHER           -> 0

InCompute == pc \in {"write", "activate", "update", "read"} \/ ComputeReturned

\* C2: inside a compute call the automation calls come in the order writes,
\* Activate, Update, reads; every input mapping is written before Activate, Activate
\* precedes Update and Update precedes every read; and compute runs only with the
\* mapping lists that setup built from the options.
C2_ComputeOrder ==
    InCompute =>
        /\ Len(input_mappings) = Len(opt_inputs)
        /\ Len(output_mappings) = Len(opt_outputs)
        /\ \A p \in AllPairs : \E e \in {opt_inputs[i] : i \in 1..Len(opt_inputs)}
                                     \cup {opt_outputs[i] : i \in 1..Len(opt_outputs)} :
               e[1] = p.m.catia_name /\ e[2] = p.var
        /\ \A i \in 1..Len(comLog) : Rank(comLog[i].op) > 0
        /\ \A i, j \in 1..Len(comLog) :
               i < j => Rank(comLog[i].op) <= Rank(comLog[j].op)
        /\ \A j \in 1..Len(comLog) :
               Rank(comLog[j].op) >= 2 =>
                   \A k \in 1..Len(input_mappings) :
                       \E i \in 1..(j - 1) :
                           /\ comLog[i].op = "write"
                           /\ comLog[i].arg = input_mappings[k].catia_name
        /\ \A j \in 1..Len(comLog) :
               comLog[j].op = "Update" => \E i \in 1..(j - 1) : comLog[i].op = "Activate"
        /\ \A j \in 1..Len(comLog) :
               comLog[j].op = "read" => \E i \in 1..(j - 1) : comLog[i].op = "Update"

\* a compute call with two inputs and two outputs has run to its end
C2_Witness ==
    /\ pc = "ready"
    /\ computes >= 1
    /\ Len(input_mappings) = 2
    /\ Len(output_mappings) = 2
    /\ Len(comLog) = 6
    /\ comLog[6].op = "read"

\* C3: with no flag from the user a mapping is discrete exactly when the parameter
\* is a BoolParam, IntParam or StrParam; with a flag, other than False for a
\* StrParam, the mapping's discrete field is the flag.
C3_DiscreteInference ==
    \A p \in AllPairs :
        LET type == params[p.m.catia_name].type
            flag == UserFlag(p.var)
        IN  /\ flag = PyNone =>
                (Truthy(p.m.discrete) <=> type \in {"BoolParam", "IntParam", "StrParam"})
            /\ (flag # PyNone /\ ~(flag = PyBool(FALSE) /\ type = "StrParam")) =>
                p.m.discrete = flag

\* a RealParam made discrete by the user beside an integer left to the inference
C3_Witness ==
    /\ pc = "ready"
    /\ \E p \in AllPairs :
         /\ params[p.m.catia_name].type = "RealParam"
         /\ UserFlag(p.var) = PyBool(TRUE)
         /\ p.m.discrete = PyBool(TRUE)
    /\ \E p \in AllPairs :
         /\ params[p.m.catia_name].type = "IntParam"
         /\ UserFlag(p.var) = PyNone
         /\ p.m.discrete = PyBool(TRUE)

\* the parameter's current value as parameter_type_value_and_unit reports it
CurrentValue(param) ==
    IF param.hasUnit \/ param.type = "RealParam" THEN PyFloat(param.value.n)
    ELSE param.value

\* C4: right after setup, a mapping's units are the parameter's translated unit when
\* it has one and the user's otherwise; its val and desc are the user's when the
\* user gave one and the parameter's current value and comment otherwise.
C4_Precedence ==
    (pc \in {"ready", "failed"} /\ computes = 0) =>
        \A p \in AllPairs :
            LET param == params[p.m.catia_name]
            IN  /\ p.m.units = IF param.hasUnit /\ param.symbol # ""
                               THEN units_catia_to_om(PyStr(param.symbol))
                               ELSE UserUnits(p.var)
                /\ p.m.val = IF UserVal(p.var) # PyNone THEN UserVal(p.var)
                             ELSE CurrentValue(param)
                /\ p.m.desc = IF UserDesc(p.var) # PyStr("") THEN UserDesc(p.var)
                              ELSE PyStr(param.comment)

\* C4 without its statement about val
C4_UnitsAndDesc ==
    (pc \in {"ready", "failed"} /\ computes = 0) =>
        \A p \in AllPairs :
            LET param == params[p.m.catia_name]
            IN  /\ p.m.units = IF param.hasUnit /\ param.symbol # ""
                               THEN units_catia_to_om(PyStr(param.symbol))
                               ELSE UserUnits(p.var)
                /\ p.m.desc = IF UserDesc(p.var) # PyStr("") THEN UserDesc(p.var)
                              ELSE PyStr(param.comment)
                /\ Truthy(UserVal(p.var)) => p.m.val = UserVal(p.var)
                /\ UserVal(p.var) = PyNone => p.m.val = CurrentValue(param)

\* the most recent operation was a load_document call
IsLoadLog == Len(comLog) >= 1 /\ comLog[1].op = "GetItem"
OpenCalls == {i \in 1..Len(comLog) : comLog[i].op \in {"Open", "Read"}}

\* C5: load_document makes exactly one Open (open_ true) or Read (open_ false) call
\* when the path's STI item is its own parent and returns that document; otherwise
\* it makes neither call and returns the loaded document; and no document is ever
\* open twice in a session.
C5_OpenOnlyWhenUnloaded ==
    /\ IsLoadLog =>
         IF lastDoc.wasLoaded
         THEN /\ OpenCalls = {}
              /\ \E i \in 1..Len(comLog) :
                     comLog[i].op = "GetDocument" /\ comLog[i].arg = lastDoc.path
              /\ lastDoc.err = ""
              /\ lastDoc.doc = lastDoc.path
         ELSE /\ Cardinality(OpenCalls) = 1
              /\ \A i \in OpenCalls :
                     /\ comLog[i].op = IF lastDoc.open_ THEN "Open" ELSE "Read"
                     /\ comLog[i].arg = lastDoc.path
              /\ lastDoc.err = "" => lastDoc.doc = lastDoc.path
    /\ \A path \in Paths : catia.loaded[path] <= 1

\* load_document called on a path that an earlier call opened
C5_Witness ==
    /\ IsLoadLog
    /\ lastDoc.wasLoaded
    /\ OpenCalls = {}
    /\ lastDoc.doc = lastDoc.path
    /\ catia.loaded[lastDoc.path] = 1

\* C6: between two Quits get_catia_session starts at most one session, returns the
\* same session on every call, and that session is alive.
C6_OneSession ==
    /\ started <= 1
    /\ Cardinality(handles) <= 1
    /\ \A h \in handles : catia_alive(catia, h)

\* a second get_catia_session call attached to the session the first one started,
\* whose caption had been set in between
C6_Witness ==
    /\ started = 1
    /\ comLog = <<Call("GetObject", "CATIA.Application", catia)>>
    /\ catia.caption = "foobar"
    /\ handles = {catia.sid}

\* C7: the unit assertion of compute never fails.
C7_UnitAssertionNeverFails == err # "AssertionError"

\* C8: a StrParam given discrete=False yields no mapping and makes setup raise
\* ValueError, and no StrParam is ever declared as a continuous input or output.
C8_StrParamNeverContinuous ==
    /\ \A i \in 1..Len(declared) :
           params[declared[i].catia_name].type = "StrParam"
               => declared[i].kind \in {"discrete_input", "discrete_output"}
    /\ \A p \in AllPairs :
           ~(UserFlag(p.var) = PyBool(FALSE) /\ params[p.m.catia_name].type = "StrParam")
    /\ (/\ pc # "new"
        /\ \E e \in {opt_inputs[i] : i \in 1..Len(opt_inputs)}
                    \cup {opt_outputs[i] : i \in 1..Len(opt_outputs)} :
               /\ e[1] \in DOMAIN params
               /\ params[e[1]].type = "StrParam"
               /\ UserFlag(e[2]) = PyBool(FALSE))
           => pc = "failed"

\* C8 for the flag False itself: no mapping is built from a StrParam given
\* discrete=False and setup raises; a StrParam is declared continuous only under
\* a flag that is falsy without being False
C8_FalseRejected ==
    /\ \A p \in AllPairs :
           ~(UserFlag(p.var) = PyBool(FALSE) /\ params[p.m.catia_name].type = "StrParam")
    /\ (/\ pc # "new"
        /\ \E e \in {opt_inputs[i] : i \in 1..Len(opt_inputs)}
                    \cup {opt_outputs[i] : i \in 1..Len(opt_outputs)} :
               /\ e[1] \in DOMAIN params
               /\ params[e[1]].type = "StrParam"
               /\ UserFlag(e[2]) = PyBool(FALSE))
           => pc = "failed"
    /\ \A i \in 1..Len(declared) :
           (/\ params[declared[i].catia_name].type = "StrParam"
            /\ declared[i].kind \in {"input", "output"})
               => \E p \in AllPairs :
                      /\ p.m.catia_name = declared[i].catia_name
                      /\ UserFlag(p.var) \notin {PyNone, PyBool(FALSE)}
                      /\ ~Truthy(UserFlag(p.var))

\* an options entry that _gen_var_mappings rejects
BadEntry(e) ==
    \/ e[1] \notin DOMAIN params
    \/ /\ e[1] \in DOMAIN params
       /\ LET param == params[e[1]]
          IN  \/ /\ ~param.hasUnit
                 /\ param.type \notin {"RealParam", "BoolParam", "IntParam", "StrParam"}
              \/ /\ param.type = "StrParam"
                 /\ UserFlag(e[2]) = PyBool(FALSE)

AnyBadEntry ==
    \/ \E i \in 1..Len(opt_inputs) : BadEntry(opt_inputs[i])
    \/ \E i \in 1..Len(opt_outputs) : BadEntry(opt_outputs[i])

\* C9: when the document has loaded and an entry of the inputs or outputs option
\* is rejected, setup raises ValueError; and whenever setup raises, no input or
\* output, continuous or discrete, has been declared.
C9_FailsBeforeDeclaring ==
    /\ (pc # "new" /\ lastDoc.err = "" /\ AnyBadEntry) =>
           (pc = "failed" /\ err = "ValueError")
    /\ pc = "failed" =>
           /\ err # ""
           /\ declared = <<>>
           /\ inputs = EmptyMap
           /\ discrete_inputs = EmptyMap
           /\ outputs = EmptyMap
           /\ discrete_outputs = EmptyMap

\* setup has raised on an output after every input mapping was built
C9_Witness ==
    /\ pc = "failed"
    /\ err = "ValueError"
    /\ lastDoc.err = ""
    /\ env.doc_type = "PartDocument"
    /\ Len(opt_inputs) >= 1
    /\ Len(input_mappings) = Len(opt_inputs)
    /\ declared = <<>>

\* C10 as stated: a translation followed by the opposite one gives back the unit
\* it started from, for every unit string.
C10_MutuallyInverse ==
    \A i \in 1..(Len(unitOps) - 1) :
        unitOps[i] # unitOps[i + 1] => unitTrail[i + 2] = unitTrail[i]

\* C10 amended: units_om_to_catia undoes units_catia_to_om on every unit string but
\* m**2 and m**3, and units_catia_to_om undoes units_om_to_catia on every unit
\* string but m2 and m3.
C10_InverseOnOwnSpellings ==
    \A i \in 1..(Len(unitOps) - 1) :
        /\ (/\ unitOps[i] = "catia_to_om"
            /\ unitOps[i + 1] = "om_to_catia"
            /\ unitTrail[i] \notin {PyStr("m**2"), PyStr("m**3")})
               => unitTrail[i + 2] = unitTrail[i]
        /\ (/\ unitOps[i] = "om_to_catia"
            /\ unitOps[i + 1] = "catia_to_om"
            /\ unitTrail[i] \notin {PyStr("m2"), PyStr("m3")})
               => unitTrail[i + 2] = unitTrail[i]

\* m2 translated to m**2 and back, then m**2 to m2 and back
C10_Witness ==
    /\ Len(unitOps) = 3
    /\ unitOps = <<"catia_to_om", "om_to_catia", "catia_to_om">>
    /\ unitTrail = <<PyStr("m2"), PyStr("m**2"), PyStr("m2"), PyStr("m**2")>>

\* C11: every load_document call, whether the document was loaded already, was
\* opened or read, or Open / Read raised, leaves DisplayFileAlerts as it found it;
\* the setting is False during the Open or Read call and has the caller's value
\* at every other call load_document makes.
C11_AlertsRestored ==
    [][LoadDocument =>
         /\ catia'.DisplayFileAlerts = catia.DisplayFileAlerts
         /\ \A i \in 1..Len(comLog') :
                comLog'[i].alerts = IF comLog'[i].op \in {"Open", "Read"} THEN FALSE
                                    ELSE catia.DisplayFileAlerts]_vars

\* Open or Read raised with alerts switched off for the call, and the setting is
\* back to True
C11_Witness ==
    /\ IsLoadLog
    /\ lastDoc.err = "com_error"
    /\ \E i \in OpenCalls : ~comLog[i].alerts
    /\ comLog[1].alerts
    /\ catia.DisplayFileAlerts

====
